---------------------------- MODULE Spec2Model ----------------------------
(***************************************************************************)
(* A model of server/models.py: the Game session (peewee model) with its  *)
(* TurnCounter and start_game, the enum-typed database field, and the      *)
(* password hasher.                                                        *)
(*                                                                         *)
(* A Game lives in two places: the row of the games table (db) and the     *)
(* Python objects callers hold (mem).  peewee's Model.save() on an object  *)
(* that has a primary key issues one UPDATE that sets every column from    *)
(* the object's __data__; loading a row constructs a new object through    *)
(* Game.__init__.                                                          *)
(***************************************************************************)
EXTENDS Integers, Sequences, FiniteSets, TLC

VARIABLES
    db,        \* the persisted row of the one game (enum columns as integer codes)
    mem,       \* mem[c]: the Game object caller c holds, or NoCopy
    last,      \* the last operation executed and its outcome (caller 0: the collaborator)
    nAdvance,  \* history: number of turn advances that returned without raising
    read,      \* what the last int(game.turn_number) / str(game.turn_number) gave
    stored,    \* a user's password_hash blob
    hashedOf,  \* history: <<p>> while the blob is hash_password(p), <<>> once damaged
    check,     \* the last password check: [called, password, raised, result]
    codec      \* the last EnumField conversion: [op, options, code, member, result, raised]

vars == <<db, mem, last, nAdvance, read, stored, hashedOf, check, codec>>

gameVars == <<db, mem, last, nAdvance, read>>
pwVars == <<stored, hashedOf, check>>

---------------------------------------------------------------------------
(* Bounds of the model *)

\* at most this many turn advances succeed in a behaviour
MaxAdvance == 2
\* datetime.datetime.now() yields a value of 1..MaxTime
MaxTime == 1

\* None as a field value and NULL as a column value, written 0: the user ids,
\* timestamps and intervals of the model are all positive
Null == 0
Callers == {1, 2}
\* user ids (the values of the foreign keys host and away)
Host == 1
AwayUsers == {2, 3}
Times == 1 .. MaxTime
\* interval values (seconds) for starting_time and the clocks
Durations == {300, 600}
\* operands of game.turn_number += value
Values == {-1, 0, 1, 2}

---------------------------------------------------------------------------
(* Enums: a sequence of members; enum.auto() numbers them from 1 *)

Side == <<"Side.HOME", "Side.AWAY">>

Winner == <<"Winner.GAME_NOT_COMPLETE", "Winner.HOME", "Winner.AWAY", "Winner.DRAW">>

Conclusion ==
    <<"Conclusion.GAME_NOT_COMPLETE", "Conclusion.CHECKMATE", "Conclusion.RESIGN",
      "Conclusion.TIME", "Conclusion.STALEMATE", "Conclusion.THREEFOLD_REPETITION",
      "Conclusion.FIFTY_MOVE_RULE", "Conclusion.AGREED_DRAW">>

PieceType ==
    <<"PieceType.PAWN", "PieceType.ROOK", "PieceType.KNIGHT", "PieceType.BISHOP",
      "PieceType.QUEEN", "PieceType.KING">>

Members(options) == {options[i] : i \in DOMAIN options}

\* Side.__invert__
__invert__(self) == IF self = "Side.HOME" THEN "Side.AWAY" ELSE "Side.HOME"

\* EnumField.python_value with a lookup that falls back to the first member
python_value_default(options, raw) ==
    [raised |-> "none",
     value |-> IF raw \in DOMAIN options THEN options[raw] ELSE options[1]]

\* EnumField.python_value: IntegerField.python_value keeps None and applies
\* int() otherwise; options(number) raises ValueError for a value no member
\* has (None included).  value is what is returned when nothing is raised.
python_value(options, raw) ==
    LET number == raw
    IN  IF number # Null /\ number \in DOMAIN options
        THEN [raised |-> "none", value |-> options[number]]
        ELSE [raised |-> "ValueError", value |-> ""]

\* EnumField.db_value
db_value(options, instance) ==
    IF instance \notin Members(options)
    THEN [raised |-> "TypeError", value |-> Null]
    ELSE [raised |-> "none",
          value |-> CHOOSE number \in DOMAIN options : options[number] = instance]

---------------------------------------------------------------------------
(* The Game model *)

\* field defaults where conclusion_type defaults to a finished game
NewData_conclusion_checkmate(host, starting_time) ==
    [ host |-> host,
      away |-> Null,
      current_turn |-> "Side.HOME",
      _turn_number |-> 1,
      mode |-> 1,
      starting_time |-> starting_time,
      home_time |-> Null,
      away_time |-> Null,
      home_offering_draw |-> FALSE,
      away_offering_draw |-> FALSE,
      winner |-> "Winner.GAME_NOT_COMPLETE",
      conclusion_type |-> "Conclusion.CHECKMATE",
      last_turn |-> Null,
      started_at |-> Null,
      ended_at |-> Null ]

\* The field defaults of Game, with the arguments of Game(host=..., starting_time=...)
NewData(host, starting_time) ==
    [ host |-> host,
      away |-> Null,
      current_turn |-> "Side.HOME",
      _turn_number |-> 1,
      mode |-> 1,
      starting_time |-> starting_time,
      home_time |-> Null,
      away_time |-> Null,
      home_offering_draw |-> FALSE,
      away_offering_draw |-> FALSE,
      winner |-> "Winner.GAME_NOT_COMPLETE",
      conclusion_type |-> "Conclusion.GAME_NOT_COMPLETE",
      last_turn |-> Null,
      started_at |-> Null,
      ended_at |-> Null ]

\* Game.__init__: super().__init__ has stored the keyword arguments in
\* __data__; then the counter is attached and both clocks are set.
Game__init__(data) ==
    [ data |-> [data EXCEPT !.home_time = data.starting_time,
                            !.away_time = data.starting_time],
      turn_number |-> "TurnCounter" ]

\* The row an object's __data__ is written as (db_value of each enum field)
ToRow(data) ==
    [data EXCEPT !.current_turn = db_value(Side, @).value,
                 !.winner = db_value(Winner, @).value,
                 !.conclusion_type = db_value(Conclusion, @).value]

\* The field values a row is read as (python_value of each enum field)
FromRow(row) ==
    [row EXCEPT !.current_turn = python_value(Side, @).value,
                !.winner = python_value(Winner, @).value,
                !.conclusion_type = python_value(Conclusion, @).value]

\* Model.save() of an object with a primary key: UPDATE of every column
save(game) == ToRow(game.data)

\* Loading the row.  A single-table select builds the object as
\* Game(**row), so Game.__init__ runs over the loaded values; a select with
\* joins builds Game() first and sets the loaded values afterwards.
LoadObject(row, joined) ==
    IF joined
    THEN [Game__init__([FromRow(row) EXCEPT !.starting_time = Null])
            EXCEPT !.data = FromRow(row)]
    ELSE Game__init__(FromRow(row))

\* start_game that forgets the started_at stamp
start_game_no_started_at(self, away, t1, t2) ==
    [self EXCEPT !.data.away = away, !.data.last_turn = t2]

\* start_game that forgets the last_turn stamp
start_game_no_last_turn(self, away, t1, t2) ==
    [self EXCEPT !.data.away = away, !.data.started_at = t1]

\* Game.start_game up to its save(): t1, t2 are the two now() readings
start_game(self, away, t1, t2) ==
    [self EXCEPT !.data.away = away,
                 !.data.started_at = t1,
                 !.data.last_turn = t2]

\* __iadd__ that also stamps last_turn
__iadd__stamps_last_turn(game, value) ==
    IF value # 1
    THEN [game |-> game, raised |-> "ValueError", saved |-> FALSE, returned |-> "None"]
    ELSE [game |-> [game EXCEPT !.data._turn_number = @ + 1,
                                !.data.current_turn = __invert__(@),
                                !.data.last_turn = MaxTime],
          raised |-> "none", saved |-> TRUE, returned |-> "None"]

\* __iadd__ that forgets to flip the side
__iadd__no_flip(game, value) ==
    IF value # 1
    THEN [game |-> game, raised |-> "ValueError", saved |-> FALSE, returned |-> "None"]
    ELSE [game |-> [game EXCEPT !.data._turn_number = @ + 1],
          raised |-> "none", saved |-> TRUE, returned |-> "None"]

\* TurnCounter.__iadd__(value) on the counter of `game`: the object after the
\* call, what was raised, whether save() ran, and the value returned.
__iadd__(game, value) ==
    IF value # 1
    THEN [game |-> game, raised |-> "ValueError", saved |-> FALSE, returned |-> "None"]
    ELSE [game |-> [game EXCEPT !.data._turn_number = @ + 1,
                                !.data.current_turn = __invert__(@)],
          raised |-> "none", saved |-> TRUE, returned |-> "None"]

\* The statement  game.turn_number += value : the attribute is read, its
\* __iadd__ is called and the attribute is bound to what the call returned.
\* None has no __iadd__ nor __add__: TypeError.
AugAssign(game, value) ==
    IF game.turn_number # "TurnCounter"
    THEN [game |-> game, raised |-> "TypeError", saved |-> FALSE, returned |-> "None"]
    ELSE LET r == __iadd__(game, value)
         IN  IF r.raised # "none"
             THEN r
             ELSE [r EXCEPT !.game.turn_number = r.returned]

\* str() of a non-negative int: its decimal digits
Digits == <<"0", "1", "2", "3", "4", "5", "6", "7", "8", "9">>

RECURSIVE DecimalText(_)
DecimalText(n) ==
    IF n < 10
    THEN <<Digits[n + 1]>>
    ELSE DecimalText(n \div 10) \o <<Digits[(n % 10) + 1]>>

\* TurnCounter.__int__
__int__(game) == game.data._turn_number

\* TurnCounter.__str__
__str__(game) == DecimalText(game.data._turn_number)

\* int(game.turn_number): int(None) raises TypeError
IntOfAttribute(game) ==
    IF game.turn_number = "TurnCounter"
    THEN [kind |-> "int", raised |-> "none", int |-> __int__(game), text |-> <<>>]
    ELSE [kind |-> "int", raised |-> "TypeError", int |-> Null, text |-> <<>>]

\* str(game.turn_number): str(None) is 'None'
StrOfAttribute(game) ==
    IF game.turn_number = "TurnCounter"
    THEN [kind |-> "str", raised |-> "none", int |-> Null, text |-> __str__(game)]
    ELSE [kind |-> "str", raised |-> "none", int |-> Null,
          text |-> <<"N", "o", "n", "e">>]

NoRead == [kind |-> "none", raised |-> "none", int |-> Null, text |-> <<>>]

\* what a caller that has not loaded the game holds
NoCopy == [data |-> NewData(Null, Null), turn_number |-> "NoCopy"]

HasCopy(c) == mem[c].turn_number # "NoCopy"

---------------------------------------------------------------------------
(* Password hashing *)

\* os.urandom(32): the salt width
SaltBytes == 32
\* hashed[:32] and hashed[32:]: where check_password splits the blob
SplitAt == 32
\* the digest size of sha3-256, the length of the derived key
KeyBytes == 32

\* passwords, as sequences of code points
Passwords == { <<>>, <<97>>, <<97, 98>>, <<233>>, <<195, 169>> }

\* salts os.urandom may return
Salts == { [i \in 1 .. SaltBytes |-> 0], [i \in 1 .. SaltBytes |-> i],
           [i \in 1 .. SaltBytes |-> 255 - i] }

\* str.encode(): UTF-8, of code points below 2048
RECURSIVE encode(_)
encode(str) ==
    IF str = <<>>
    THEN <<>>
    ELSE LET cp == Head(str)
         IN  (IF cp < 128 THEN <<cp>> ELSE <<192 + (cp \div 64), 128 + (cp % 64)>>)
                 \o encode(Tail(str))

\* hashlib.pbkdf2_hmac('sha3-256', password, salt, 100_000): the key
\* derivation taken as an injective function of password and salt; byte i of
\* the key is the term <<password, salt, i>>.
pbkdf2_hmac(password, salt) == [i \in 1 .. KeyBytes |-> <<password, salt, i>>]

\* hmac.compare_digest
compare_digest(a, b) == Len(a) = Len(b) /\ \A i \in 1 .. Len(a) : a[i] = b[i]

\* the slices blob[:n] and blob[n:], which clamp to the length of the blob
UpTo(blob, n) == SubSeq(blob, 1, IF n < Len(blob) THEN n ELSE Len(blob))
From(blob, n) == IF n < Len(blob) THEN SubSeq(blob, n + 1, Len(blob)) ELSE <<>>

\* hash_password, with the salt os.urandom returned
hash_password(password, salt) == salt \o pbkdf2_hmac(encode(password), salt)

\* check_password that takes one byte too few as the salt
check_password_short_salt(password, hashed) ==
    LET salt == UpTo(hashed, SplitAt - 1)
        key == From(hashed, SplitAt)
        attempt_key == pbkdf2_hmac(encode(password), salt)
    IN  [raised |-> "none", result |-> compare_digest(key, attempt_key)]

\* check_password: no statement of it raises for a bytes blob of any length
check_password(password, hashed) ==
    LET salt == UpTo(hashed, SplitAt)
        key == From(hashed, SplitAt)
        attempt_key == pbkdf2_hmac(encode(password), salt)
    IN  [raised |-> "none", result |-> compare_digest(key, attempt_key)]

\* HashedPassword.__eq__ of HashedPassword(hashed_password)
__eq__(hashed_password, password) == check_password(password, hashed_password)

NoCheck == [called |-> FALSE, password |-> <<>>, raised |-> "none", result |-> FALSE]

\* blob lengths a damaged password_hash is cut to
CutLengths == {0, 1, SplitAt - 1, SplitAt, SplitAt + 1, SaltBytes + KeyBytes - 1}

\* user.password = password  (User.password setter)
SetPassword(password, salt) ==
    /\ stored' = hash_password(password, salt)
    /\ hashedOf' = <<password>>
    /\ check' = NoCheck
    /\ UNCHANGED <<gameVars, codec>>

\* user.password == password  (User.password getter, HashedPassword.__eq__)
CheckPassword(password) ==
    /\ LET r == __eq__(stored, password)
       IN  check' = [called |-> TRUE, password |-> password,
                     raised |-> r.raised, result |-> r.result]
    /\ UNCHANGED <<stored, hashedOf, gameVars, codec>>

\* the stored blob is damaged: only its first n bytes are left
Truncate(n) ==
    /\ n < Len(stored)
    /\ stored' = UpTo(stored, n)
    /\ hashedOf' = <<>>
    /\ check' = NoCheck
    /\ UNCHANGED <<gameVars, codec>>

---------------------------------------------------------------------------
(* Enum conversions at the table boundary *)

\* integer codes are tried over -1 .. MaxCode
MaxCode == 9

Enums == {Side, Winner, Conclusion, PieceType}
RawCodes == -1 .. MaxCode
AllMembers == UNION {Members(options) : options \in Enums}

\* a column value is read
Decode(options, raw) ==
    /\ LET r == python_value(options, raw)
       IN  codec' = [op |-> "python_value", options |-> options, code |-> raw,
                     member |-> "", result |-> r.value, raised |-> r.raised]
    /\ UNCHANGED <<gameVars, pwVars>>

\* a field value is written
Encode(options, instance) ==
    /\ LET r == db_value(options, instance)
       IN  codec' = [op |-> "db_value", options |-> options, code |-> r.value,
                     member |-> instance, result |-> "", raised |-> r.raised]
    /\ UNCHANGED <<gameVars, pwVars>>

\* a member is written and read back
RoundTrip(options, instance) ==
    /\ instance \in Members(options)
    /\ LET w == db_value(options, instance)
           r == python_value(options, w.value)
       IN  codec' = [op |-> "roundtrip", options |-> options, code |-> w.value,
                     member |-> instance, result |-> r.value, raised |-> r.raised]
    /\ UNCHANGED <<gameVars, pwVars>>

---------------------------------------------------------------------------
(* Operations on the game *)

\* caller c executes  game.turn_number += value
\* (MaxAdvance keeps the turn number far below the SmallIntegerField range)
Advance(c, value) ==
    /\ HasCopy(c)
    /\ nAdvance < MaxAdvance
    /\ LET r == AugAssign(mem[c], value)
       IN  /\ mem' = [mem EXCEPT ![c] = r.game]
           /\ db' = IF r.saved THEN save(r.game) ELSE db
           /\ nAdvance' = IF r.raised = "none" THEN nAdvance + 1 ELSE nAdvance
           /\ last' = [name |-> "advance", caller |-> c, arg |-> value,
                       error |-> r.raised, saved |-> r.saved,
                       pre_away |-> mem[c].data.away]
    /\ read' = NoRead
    /\ UNCHANGED <<pwVars, codec>>

\* caller c executes  game.start_game(away)
Start(c, away) ==
    /\ HasCopy(c)
    /\ \E t1 \in Times, t2 \in Times :
         /\ t1 <= t2
         /\ LET g == start_game(mem[c], away, t1, t2)
            IN  /\ mem' = [mem EXCEPT ![c] = g]
                /\ db' = save(g)
    /\ last' = [name |-> "start", caller |-> c, arg |-> away,
                error |-> "none", saved |-> TRUE,
                pre_away |-> mem[c].data.away]
    /\ read' = NoRead
    /\ UNCHANGED <<nAdvance, pwVars, codec>>

\* caller c loads the game from the table (Game.get / a joined select)
Load(c, joined) ==
    /\ mem' = [mem EXCEPT ![c] = LoadObject(db, joined)]
    /\ last' = [name |-> "load", caller |-> c, arg |-> IF joined THEN 1 ELSE 0,
                error |-> "none", saved |-> FALSE, pre_away |-> db.away]
    /\ read' = NoRead
    /\ UNCHANGED <<db, nAdvance, pwVars, codec>>

\* a collaborator (the clock process) updates one clock column of the row
SetClock(side, t) ==
    /\ IF side = "Side.HOME" THEN db.home_time # t ELSE db.away_time # t
    /\ db' = IF side = "Side.HOME" THEN [db EXCEPT !.home_time = t]
                                   ELSE [db EXCEPT !.away_time = t]
    /\ last' = [name |-> "clock", caller |-> 0, arg |-> db_value(Side, side).value,
                error |-> "none", saved |-> TRUE, pre_away |-> db.away]
    /\ read' = NoRead
    /\ UNCHANGED <<mem, nAdvance, pwVars, codec>>

\* the outcomes the collaborator (the rule engine) records
Outcomes == { <<"Winner.HOME", "Conclusion.CHECKMATE">>,
              <<"Winner.DRAW", "Conclusion.AGREED_DRAW">> }

\* a collaborator ends the game: winner, conclusion_type and ended_at of the
\* row are set together
Finish(outcome, t) ==
    /\ db.winner = db_value(Winner, "Winner.GAME_NOT_COMPLETE").value
    /\ db' = [db EXCEPT !.winner = db_value(Winner, outcome[1]).value,
                        !.conclusion_type = db_value(Conclusion, outcome[2]).value,
                        !.ended_at = t]
    /\ last' = [name |-> "finish", caller |-> 0,
                arg |-> db_value(Winner, outcome[1]).value,
                error |-> "none", saved |-> TRUE, pre_away |-> db.away]
    /\ read' = NoRead
    /\ UNCHANGED <<mem, nAdvance, pwVars, codec>>

\* caller c evaluates  int(game.turn_number)
ReadInt(c) ==
    /\ HasCopy(c)
    /\ read' = IntOfAttribute(mem[c])
    /\ last' = [name |-> "int", caller |-> c, arg |-> Null,
                error |-> read'.raised, saved |-> FALSE,
                pre_away |-> mem[c].data.away]
    /\ UNCHANGED <<db, mem, nAdvance, pwVars, codec>>

\* caller c evaluates  str(game.turn_number)
ReadStr(c) ==
    /\ HasCopy(c)
    /\ read' = StrOfAttribute(mem[c])
    /\ last' = [name |-> "str", caller |-> c, arg |-> Null,
                error |-> read'.raised, saved |-> FALSE,
                pre_away |-> mem[c].data.away]
    /\ UNCHANGED <<db, mem, nAdvance, pwVars, codec>>

---------------------------------------------------------------------------
(* Initial states *)

\* caller 1 has created the game, Game.create(host=..., starting_time=...)
GameInit ==
    \E st \in Durations :
        LET g == Game__init__(NewData(Host, st))
        IN  /\ mem = [c \in Callers |-> IF c = 1 THEN g ELSE NoCopy]
            /\ db = save(g)
            /\ last = [name |-> "create", caller |-> 1, arg |-> st,
                       error |-> "none", saved |-> TRUE, pre_away |-> Null]
            /\ nAdvance = 0
            /\ read = NoRead

\* no user yet
PwIdle ==
    /\ stored = <<>>
    /\ hashedOf = <<>>
    /\ check = NoCheck

CodecIdle ==
    codec = [op |-> "none", options |-> <<>>, code |-> Null, member |-> "",
             result |-> "", raised |-> "none"]

Init == GameInit /\ PwIdle /\ CodecIdle

---------------------------------------------------------------------------
(* One caller, with the collaborators that keep the clocks and end the game *)

Next ==
    \/ \E value \in Values : Advance(1, value)
    \/ \E away \in AwayUsers : Start(1, away)
    \/ \E joined \in BOOLEAN : Load(1, joined)
    \/ \E side \in Members(Side), t \in Durations : SetClock(side, t)
    \/ \E outcome \in Outcomes : Finish(outcome, MaxTime)
    \/ ReadInt(1)
    \/ ReadStr(1)

Spec == Init /\ [][Next]_vars

(* Two callers, each with a copy it loaded itself *)

NextConc ==
    \/ \E c \in Callers, value \in Values : Advance(c, value)
    \/ \E c \in Callers, away \in AwayUsers : Start(c, away)
    \/ \E c \in Callers, joined \in BOOLEAN : Load(c, joined)

SpecConc == Init /\ [][NextConc]_vars

(* A user's password: set, checked, and its stored blob damaged *)

PwInit ==
    \E password \in Passwords, salt \in Salts :
        /\ stored = hash_password(password, salt)
        /\ hashedOf = <<password>>
        /\ check = NoCheck

InitPw == GameInit /\ PwInit /\ CodecIdle

NextPw ==
    \/ \E password \in Passwords, salt \in Salts : SetPassword(password, salt)
    \/ \E password \in Passwords : CheckPassword(password)
    \/ \E n \in CutLengths : Truncate(n)

SpecPw == InitPw /\ [][NextPw]_vars

(* Enum columns read and written *)

NextEnum ==
    \/ \E options \in Enums, raw \in RawCodes : Decode(options, raw)
    \/ \E options \in Enums, instance \in AllMembers : Encode(options, instance)
    \/ \E options \in Enums, instance \in AllMembers : RoundTrip(options, instance)

SpecEnum == Init /\ [][NextEnum]_vars

---------------------------------------------------------------------------
(* Claims about the turn counter and start_game *)

IsAdvance(l) == l.name = "advance"
IsStart(l) == l.name = "start"
Succeeded(l) == l.error = "none"

\* C1: on a session created at turn 1 / HOME, every  game.turn_number += 1
\* is accepted, and after N accepted advances the turn number is 1 + N and
\* the side is HOME for even N, AWAY for odd N.
C1_TurnAfterAdvances ==
    /\ mem[1].data._turn_number = 1 + nAdvance
    /\ mem[1].data.current_turn =
           IF nAdvance % 2 = 0 THEN "Side.HOME" ELSE "Side.AWAY"
    /\ (IsAdvance(last) /\ last.arg = 1) => Succeeded(last)

\* C2: an advance by a value other than 1 raises the invalid-argument error
\* (ValueError), writes nothing and leaves the object and the row as they were.
C2_RejectedAdvance ==
    [][ (IsAdvance(last') /\ last'.arg # 1)
            => /\ last'.error = "ValueError"
               /\ ~last'.saved
               /\ mem' = mem
               /\ db' = db ]_vars

\* C3: start_game on a session whose away is already set raises an
\* invalid-state error, writes nothing and changes no field.
C3_StartOnStarted ==
    [][ (IsStart(last') /\ mem[last'.caller].data.away # Null)
            => /\ last'.error = "InvalidState"
               /\ ~last'.saved
               /\ mem' = mem
               /\ db' = db ]_vars

C5_AdvanceAtomic ==
    [][ (IsAdvance(last') /\ Succeeded(last'))
            => db'._turn_number = db._turn_number + 1 ]_vars

\* C6: a start and an advance by callers with separately loaded copies do
\* not undo each other: the write of a start leaves the persisted turn number
\* and side alone, the write of an advance leaves away, started_at and
\* last_turn alone.
C6_StartAdvanceKeepEachOther ==
    [][ /\ (IsStart(last') /\ Succeeded(last'))
            => /\ db'._turn_number = db._turn_number
               /\ db'.current_turn = db.current_turn
        /\ (IsAdvance(last') /\ Succeeded(last'))
            => /\ db'.away = db.away
               /\ db'.started_at = db.started_at
               /\ db'.last_turn = db.last_turn ]_vars

\* C7: the clocks equal starting_time at creation; an advance or a start
\* leaves the clocks of the object alone, and one performed on a session
\* just reloaded from the table leaves the persisted clocks alone.
C7_ClocksSetOnlyAtCreation ==
    [][ /\ last.name = "create"
            => /\ mem[1].data.home_time = mem[1].data.starting_time
               /\ mem[1].data.away_time = mem[1].data.starting_time
               /\ db.home_time = db.starting_time
               /\ db.away_time = db.starting_time
        /\ ((IsAdvance(last') \/ IsStart(last')) /\ Succeeded(last'))
            => /\ mem'[last'.caller].data.home_time = mem[last'.caller].data.home_time
               /\ mem'[last'.caller].data.away_time = mem[last'.caller].data.away_time
        /\ ( /\ last.name = "load"
             /\ IsAdvance(last') \/ IsStart(last')
             /\ last'.caller = last.caller
             /\ Succeeded(last') )
            => /\ db'.home_time = db.home_time
               /\ db'.away_time = db.away_time ]_vars

---------------------------------------------------------------------------
(* Claims about the password hasher and the enum field *)

\* C8: against hash_password(p), for every salt drawn, checking p returns
\* true and checking any other password returns false.
C8_VerifyIffSamePassword ==
    (check.called /\ hashedOf # <<>>)
        => /\ check.raised = "none"
           /\ check.result <=> (check.password = hashedOf[1])

\* another password has been checked against an intact hash and refused
C8_WrongPasswordChecked ==
    /\ check.called
    /\ hashedOf # <<>>
    /\ check.password # hashedOf[1]
    /\ ~check.result

\* C9: checking any password against a stored blob shorter than salt plus
\* key ends in an error, never in a plain false.
C9_ShortBlobRaises ==
    (check.called /\ Len(stored) < SaltBytes + KeyBytes) => check.raised # "none"

\* C10: reading an integer code no member of the enum has raises an error
\* and yields no member; reading the code a member is written as gives that
\* member back.
C10_DecodeStrict ==
    /\ codec.op = "python_value"
        => IF \E m \in Members(codec.options) :
                  db_value(codec.options, m).value = codec.code
           THEN /\ codec.raised = "none"
                /\ codec.result \in Members(codec.options)
                /\ db_value(codec.options, codec.result).value = codec.code
           ELSE /\ codec.raised # "none"
                /\ codec.result \notin AllMembers
    /\ codec.op = "roundtrip"
        => /\ codec.raised = "none"
           /\ codec.result = codec.member

\* a code outside the enum has been read
C10_BadCodeRead ==
    /\ codec.op = "python_value"
    /\ codec.code \notin DOMAIN codec.options
    /\ codec.raised = "ValueError"

---------------------------------------------------------------------------
(* Claims about the session as a whole *)

\* the number a text of decimal digits denotes, -1 for any other text
RECURSIVE DecimalValue(_)
DecimalValue(text) ==
    IF text = <<>>
    THEN -1
    ELSE LET c == text[Len(text)]
             d == IF \E i \in DOMAIN Digits : Digits[i] = c
                  THEN (CHOOSE i \in DOMAIN Digits : Digits[i] = c) - 1
                  ELSE -1
             front == SubSeq(text, 1, Len(text) - 1)
         IN  IF d < 0 THEN -1
             ELSE IF front = <<>> THEN d
             ELSE IF DecimalValue(front) < 0 THEN -1
             ELSE 10 * DecimalValue(front) + d

IsRead(l) == l.name = "int" \/ l.name = "str"

\* C11: reading the turn counter changes nothing, and after any successful
\* and rejected advances int(game.turn_number) is the stored turn number and
\* str(game.turn_number) is its decimal text.
C11_CounterReadable ==
    [][ IsRead(last')
            => /\ mem' = mem
               /\ db' = db
               /\ read'.raised = "none"
               /\ read'.kind = "int"
                    => read'.int = mem[last'.caller].data._turn_number
               /\ read'.kind = "str"
                    => DecimalValue(read'.text) = mem[last'.caller].data._turn_number
      ]_vars

\* C12: in every persisted state, whatever the interleaving of advances and
\* starts by callers with separately loaded copies, the side is HOME exactly
\* when the turn number is odd, and the turn number is at least 1.
C12_TurnSidePaired ==
    /\ db._turn_number >= 1
    /\ (db.current_turn = db_value(Side, "Side.HOME").value)
           <=> (db._turn_number % 2 = 1)
    /\ db.current_turn \in {db_value(Side, m).value : m \in Members(Side)}

\* both callers have advanced from copies of the same turn: one update is
\* lost, and the row is at turn 2
C12_TwoAdvancesOneTurn ==
    /\ nAdvance = 2
    /\ db._turn_number = 2
    /\ \A c \in Callers : HasCopy(c) /\ mem[c].data._turn_number = 2

\* the three marks of the open phase agree in a row or an object's fields
PhaseMarksAgree(d) ==
    /\ (d.away = Null) <=> (d.started_at = Null)
    /\ (d.away = Null) <=> (d.last_turn = Null)

NotComplete(d) == d.winner = "Winner.GAME_NOT_COMPLETE"
NotConcluded(d) == d.conclusion_type = "Conclusion.GAME_NOT_COMPLETE"

\* winner and conclusion are both not-complete or both set, in fields d
OutcomeMarksAgree(d) == NotComplete(d) <=> NotConcluded(d)

\* C14: winner is not-complete exactly when conclusion is not-complete, in
\* the row and in the object; a new session has both not-complete; a start or
\* an advance changes neither.
C14_WinnerIffConclusion ==
    [][ /\ OutcomeMarksAgree(FromRow(db)) /\ OutcomeMarksAgree(FromRow(db'))
        /\ \A c \in Callers :
               /\ HasCopy(c) => OutcomeMarksAgree(mem[c].data)
               /\ HasCopy(c)' => OutcomeMarksAgree(mem'[c].data)
        /\ last.name = "create"
            => /\ NotComplete(mem[1].data) /\ NotConcluded(mem[1].data)
               /\ NotComplete(FromRow(db)) /\ NotConcluded(FromRow(db))
        /\ ((IsAdvance(last') \/ IsStart(last')) /\ Succeeded(last'))
            => /\ mem'[last'.caller].data.winner = mem[last'.caller].data.winner
               /\ mem'[last'.caller].data.conclusion_type
                      = mem[last'.caller].data.conclusion_type
               /\ ( /\ FromRow(db).winner = mem[last'.caller].data.winner
                    /\ FromRow(db).conclusion_type
                           = mem[last'.caller].data.conclusion_type )
                    => /\ db'.winner = db.winner
                       /\ db'.conclusion_type = db.conclusion_type
      ]_vars

\* a start has been performed on a session whose outcome was already recorded
C14_StartedWhenComplete ==
    /\ IsStart(last) /\ Succeeded(last)
    /\ ~NotComplete(mem[last.caller].data)
    /\ ~NotComplete(FromRow(db))

\* the fields an advance is to leave alone
KeptByAdvance ==
    {"host", "away", "started_at", "ended_at", "last_turn",
     "home_offering_draw", "away_offering_draw", "winner", "conclusion_type"}

=============================================================================
